---- MODULE Spec2Model ----
(***************************************************************************)
(* Buddy allocator of src/buddy.c: a fixed arena of 2^MAX_ORDER bytes cut  *)
(* into pages of 2^MIN_ORDER bytes, one page_t descriptor per page, one    *)
(* intrusive circular doubly-linked free list per order.                   *)
(*                                                                         *)
(* Addresses are byte offsets from g_memory.  A pointer to a list_head is  *)
(* <<"free_area", o>> (the head of order o) or <<"g_pages", i>> (the list  *)
(* member of descriptor i); the zero-filled pointer of a static object     *)
(* that was never written is ZEROED.                                       *)
(***************************************************************************)
EXTENDS Integers, Sequences, FiniteSets, TLC

\* #define MIN_ORDER 12
MIN_ORDER == 12

\* Number of orders above MIN_ORDER that the modelled arena has.  The source
\* fixes MAX_ORDER at 20 (256 pages); the model keeps the arena small.
MaxLevels == 2

\* #define MAX_ORDER: the order of the whole arena
MAX_ORDER == MIN_ORDER + MaxLevels

\* 1 << o
Shl1(o) == 2 ^ o

\* #define PAGE_SIZE (1 << MIN_ORDER)
PAGE_SIZE == Shl1(MIN_ORDER)

\* (1 << MAX_ORDER) / PAGE_SIZE, the length of g_pages
n_pages == Shl1(MAX_ORDER) \div PAGE_SIZE

Pages == 0 .. (n_pages - 1)
Orders == MIN_ORDER .. MAX_ORDER

\* the value buddy_alloc returns for "no memory"
NULL == -1

\* a list_head pointer of static storage that no code has written yet
ZEROED == <<"NULL", 0>>

HeadPtr(o) == <<"free_area", o>>
PagePtr(i) == <<"g_pages", i>>

\* page index to address
PAGE_TO_ADDR(page_idx) == page_idx * PAGE_SIZE

\* address to page index
ADDR_TO_PAGE(addr) == addr \div PAGE_SIZE

\* bitwise exclusive or of two naturals
RECURSIVE BitXor(_, _)
BitXor(a, b) ==
  IF a = 0 THEN b
  ELSE IF b = 0 THEN a
  ELSE 2 * BitXor(a \div 2, b \div 2) + (IF (a % 2) = (b % 2) THEN 0 ELSE 1)

\* a plausible slip: the buddy is taken to be the next block up
BUDDY_ADDR_add(addr, o) == (addr + Shl1(o)) % Shl1(MAX_ORDER)

\* find buddy address
BUDDY_ADDR(addr, o) == BitXor(addr, Shl1(o))

(***************************************************************************)
(* list.h: circular doubly-linked lists                                    *)
(***************************************************************************)
\* the list_head a pointer designates
LH(st, p) ==
  CASE p[1] = "free_area" -> st.free_area[p[2]]
    [] p[1] = "g_pages" -> st.g_pages[p[2]].list

SetNext(st, p, v) ==
  CASE p[1] = "free_area" -> [st EXCEPT !.free_area[p[2]].next = v]
    [] p[1] = "g_pages" -> [st EXCEPT !.g_pages[p[2]].list.next = v]

SetPrev(st, p, v) ==
  CASE p[1] = "free_area" -> [st EXCEPT !.free_area[p[2]].prev = v]
    [] p[1] = "g_pages" -> [st EXCEPT !.g_pages[p[2]].list.prev = v]

INIT_LIST_HEAD(st, ptr) == SetPrev(SetNext(st, ptr, ptr), ptr, ptr)

\* next->prev = new; new->next = next; new->prev = prev; prev->next = new
list_add_between(st, new, prev, next) ==
  SetNext(SetPrev(SetNext(SetPrev(st, next, new), new, next), new, prev), prev, new)

\* a plausible slip: insertion at the tail instead of the head
list_add_tail(st, new, head) == list_add_between(st, new, LH(st, head).prev, head)

\* insert new right after head
list_add(st, new, head) == list_add_between(st, new, head, LH(st, head).next)

\* next->prev = prev; prev->next = next
list_del_between(st, prev, next) == SetNext(SetPrev(st, next, prev), prev, next)

list_del_init(st, entry) ==
  INIT_LIST_HEAD(list_del_between(st, LH(st, entry).prev, LH(st, entry).next), entry)

list_empty(st, head) == LH(st, head).next = head

\* container_of: the page_t a list member belongs to
list_entry(ptr) == ptr[2]

\* the positions list_for_each visits, in order
RECURSIVE list_walk(_, _, _)
list_walk(st, pos, head) ==
  IF pos = head THEN << >> ELSE << pos >> \o list_walk(st, LH(st, pos).next, head)

list_for_each(st, head) == list_walk(st, LH(st, head).next, head)

(***************************************************************************)
(* Local functions.  st is the allocator state: the record of free_area    *)
(* and g_pages.                                                            *)
(***************************************************************************)
RECURSIVE orderFor_loop(_, _)
orderFor_loop(size, order) ==
  IF order <= MAX_ORDER
  THEN IF Shl1(order) >= size THEN order ELSE orderFor_loop(size, order + 1)
  ELSE -1

\* a plausible slip: a strict comparison, so exact powers of two go one up
RECURSIVE orderFor_strict_loop(_, _)
orderFor_strict_loop(size, order) ==
  IF order <= MAX_ORDER
  THEN IF Shl1(order) > size THEN order ELSE orderFor_strict_loop(size, order + 1)
  ELSE -1

orderFor_strict(size) == orderFor_strict_loop(size, MIN_ORDER)

orderFor(size) == orderFor_loop(size, MIN_ORDER)

\* one round of the loop of split: the upper half at current_order - 1 is freed
split_step(st, page, current_order) ==
  LET buddy_index == ADDR_TO_PAGE(BUDDY_ADDR(st.g_pages[page].mem, current_order))
      s1 == [st EXCEPT !.g_pages[buddy_index].order = current_order]
  IN  list_add(s1, PagePtr(buddy_index), HeadPtr(current_order))

\* a plausible slip: the loop stops one order above the target
RECURSIVE split_short(_, _, _, _)
split_short(st, page, current_order, target_order) ==
  IF current_order > target_order + 1
  THEN split_short(split_step(st, page, current_order - 1), page, current_order - 1, target_order)
  ELSE st

RECURSIVE split(_, _, _, _)
split(st, page, current_order, target_order) ==
  IF current_order > target_order
  THEN split(split_step(st, page, current_order - 1), page, current_order - 1, target_order)
  ELSE st

\* the state buddy_init leaves, from zero-filled static storage
buddy_init ==
  LET pages == [i \in Pages |->
                 [list |-> [next |-> ZEROED, prev |-> ZEROED],
                  order |-> -1, index |-> i, mem |-> PAGE_TO_ADDR(i)]]
      heads == [o \in Orders |-> [next |-> HeadPtr(o), prev |-> HeadPtr(o)]]
  IN  list_add([free_area |-> heads, g_pages |-> pages], PagePtr(0), HeadPtr(MAX_ORDER))

\* a plausible slip: the block is handed out but stays in its free list
take_block_keep(st, page, i, order) ==
  [st |-> [split(st, page, i, order) EXCEPT !.g_pages[page].order = order],
   ret |-> st.g_pages[page].mem]

\* a plausible slip: the splitting branch falls through to the final return NULL
take_block_noret(st, page, i, order) ==
  IF i = order
  THEN [st |-> [list_del_init(st, PagePtr(page)) EXCEPT !.g_pages[page].order = order],
        ret |-> st.g_pages[page].mem]
  ELSE [st |-> [split(list_del_init(st, PagePtr(page)), page, i, order)
                  EXCEPT !.g_pages[page].order = order],
        ret |-> NULL]

\* a plausible slip: the descriptor of the block handed out keeps its old order
take_block_noorder(st, page, i, order) ==
  IF i = order
  THEN [st |-> list_del_init(st, PagePtr(page)), ret |-> st.g_pages[page].mem]
  ELSE [st |-> split(list_del_init(st, PagePtr(page)), page, i, order),
        ret |-> st.g_pages[page].mem]

\* the body run for the first non-empty free list, of order i
take_block(st, page, i, order) ==
  IF i = order
  THEN [st |-> [list_del_init(st, PagePtr(page)) EXCEPT !.g_pages[page].order = order],
        ret |-> st.g_pages[page].mem]
  ELSE [st |-> [split(list_del_init(st, PagePtr(page)), page, i, order)
                  EXCEPT !.g_pages[page].order = order],
        ret |-> st.g_pages[page].mem]

\* a plausible slip: the block at the tail of the free list is taken
RECURSIVE buddy_alloc_scan_tail(_, _, _)
buddy_alloc_scan_tail(st, order, i) ==
  IF i <= MAX_ORDER
  THEN IF ~ list_empty(st, HeadPtr(i))
       THEN take_block(st, list_entry(st.free_area[i].prev), i, order)
       ELSE buddy_alloc_scan_tail(st, order, i + 1)
  ELSE [st |-> st, ret |-> NULL]

RECURSIVE buddy_alloc_scan(_, _, _)
buddy_alloc_scan(st, order, i) ==
  IF i <= MAX_ORDER
  THEN IF ~ list_empty(st, HeadPtr(i))
       THEN take_block(st, list_entry(st.free_area[i].next), i, order)
       ELSE buddy_alloc_scan(st, order, i + 1)
  ELSE [st |-> st, ret |-> NULL]

\* a plausible slip: only the free list of the requested order is looked at
buddy_alloc_exact(st, size) ==
  LET order == orderFor(size)
  IN  IF order = -1 \/ list_empty(st, HeadPtr(order))
      THEN [st |-> st, ret |-> NULL]
      ELSE take_block(st, list_entry(st.free_area[order].next), order, order)

\* a plausible slip: the scan starts one order above the requested one
buddy_alloc_skip(st, size) ==
  LET order == orderFor(size)
  IN  IF order = -1 THEN [st |-> st, ret |-> NULL] ELSE buddy_alloc_scan(st, order, order + 1)

\* the new state and the returned address
buddy_alloc(st, size) ==
  LET order == orderFor(size)
  IN  IF order = -1 THEN [st |-> st, ret |-> NULL] ELSE buddy_alloc_scan(st, order, order)

\* a plausible slip: only the stored order of the buddy is looked at, not whether
\* it is in a free list
merge_stops_orderonly(st, buddy, order) == st.g_pages[buddy].order # order

\* a plausible slip: no coalescing at all
merge_stops_always(st, buddy, order) == TRUE

\* the test that ends the merge loop of buddy_free
merge_stops(st, buddy, order) ==
  st.g_pages[buddy].order # order \/ list_empty(st, PagePtr(buddy))

\* a plausible slip: the higher-addressed page of the pair survives
survivor_high(buddy, page) == IF buddy < page THEN page ELSE buddy

\* the representative of the merged pair
survivor(buddy, page) == IF buddy < page THEN buddy ELSE page

RECURSIVE buddy_free_loop(_, _, _)
buddy_free_loop(st, page, order) ==
  IF order < MAX_ORDER
  THEN LET buddy == ADDR_TO_PAGE(BUDDY_ADDR(st.g_pages[page].mem, order))
       IN  IF merge_stops(st, buddy, order)
           THEN [st |-> st, page |-> page, order |-> order]
           ELSE buddy_free_loop(list_del_init(st, PagePtr(buddy)),
                                survivor(buddy, page), order + 1)
  ELSE [st |-> st, page |-> page, order |-> order]

buddy_free(st, addr) ==
  LET page == ADDR_TO_PAGE(addr)
      r == buddy_free_loop(st, page, st.g_pages[page].order)
  IN  list_add([r.st EXCEPT !.g_pages[r.page].order = r.order],
               PagePtr(r.page), HeadPtr(r.order))

\* the count buddy_dump prints for each order
buddy_dump(st) == [o \in Orders |-> Len(list_for_each(st, HeadPtr(o)))]

(***************************************************************************)
(* The state machine: buddy_init, then any sequence of buddy_alloc calls   *)
(* and buddy_free calls on addresses that are live.                        *)
(***************************************************************************)
VARIABLES
  free_area,  \* struct list_head free_area[MAX_ORDER + 1]
  g_pages,    \* page_t g_pages[]
  live,       \* the allocations the caller holds: address and order handed out
  last,       \* the most recent call: its name, argument and return value
  roundtrip,  \* the most recent call freed the address the call before it allocated
  pre         \* the free-list sets before that allocation, kept while it is the
              \* most recent call or roundtrip holds

vars == << free_area, g_pages, live, last, roundtrip, pre >>

\* the allocator state as the functions above take it
cur == [free_area |-> free_area, g_pages |-> g_pages]

\* the request sizes tried: one byte, one byte over a page, 5000, every exact
\* block size, and one byte over the arena
Sizes == {1, PAGE_SIZE + 1, 5000, Shl1(MAX_ORDER) + 1} \cup {Shl1(o) : o \in Orders}

SeqRange(s) == {s[k] : k \in 1 .. Len(s)}

\* the list members met from head along the next pointers, in order, up to the
\* head or to a member already met (a list damaged by a contract violation need
\* not lead back to its head)
RECURSIVE list_reach(_, _, _, _)
list_reach(st, pos, head, seen) ==
  IF pos = head \/ pos = ZEROED \/ pos \in seen
  THEN << >>
  ELSE << pos >> \o list_reach(st, LH(st, pos).next, head, seen \cup {pos})

list_members(st, head) == list_reach(st, LH(st, head).next, head, {})

\* the pages that represent the free blocks of each order
FreeSets(st) == [o \in Orders |-> {list_entry(p) : p \in SeqRange(list_members(st, HeadPtr(o)))}]

NoSnapshot == [o \in Orders |-> {}]

Init ==
  /\ free_area = buddy_init.free_area
  /\ g_pages = buddy_init.g_pages
  /\ live = {}
  /\ last = [op |-> "init", arg |-> 0, ret |-> NULL]
  /\ roundtrip = FALSE
  /\ pre = NoSnapshot

Alloc ==
  \E size \in Sizes :
    LET r == buddy_alloc(cur, size)
    IN  /\ free_area' = r.st.free_area
        /\ g_pages' = r.st.g_pages
        /\ live' = IF r.ret # NULL
                   THEN live \cup {[addr |-> r.ret, order |-> orderFor(size)]}
                   ELSE live
        /\ last' = [op |-> "alloc", arg |-> size, ret |-> r.ret]
        /\ roundtrip' = FALSE
        /\ pre' = IF r.ret # NULL THEN FreeSets(cur) ELSE NoSnapshot

Free ==
  \E b \in live :
    LET s == buddy_free(cur, b.addr)
        rt == last.op = "alloc" /\ last.ret = b.addr
    IN  /\ free_area' = s.free_area
        /\ g_pages' = s.g_pages
        /\ live' = live \ {b}
        /\ last' = [op |-> "free", arg |-> b.addr, ret |-> NULL]
        /\ roundtrip' = rt
        /\ pre' = IF rt THEN pre ELSE NoSnapshot

Next == Alloc \/ Free

Spec == Init /\ [][Next]_vars

(***************************************************************************)
(* orderFor on its own: the argument is drawn at the start, the call stores *)
(* its result in last and touches nothing else.                            *)
(***************************************************************************)
\* how far around every block size the arguments of orderFor are taken
SizeSpread == 8

\* the arguments tried: the small sizes, 5000, and the neighbourhood of every
\* block size, which goes past the arena size
OrderSizes ==
  (1 .. (2 * SizeSpread)) \cup {5000}
    \cup UNION {(Shl1(o) - SizeSpread) .. (Shl1(o) + SizeSpread) : o \in Orders}

InitOrderFor ==
  /\ free_area = buddy_init.free_area
  /\ g_pages = buddy_init.g_pages
  /\ live = {}
  /\ \E size \in OrderSizes : last = [op |-> "input", arg |-> size, ret |-> NULL]
  /\ roundtrip = FALSE
  /\ pre = NoSnapshot

OrderForCall ==
  /\ last.op = "input"
  /\ last' = [op |-> "orderFor", arg |-> last.arg, ret |-> orderFor(last.arg)]
  /\ UNCHANGED << free_area, g_pages, live, roundtrip, pre >>

NextOrderFor == OrderForCall

SpecOrderFor == InitOrderFor /\ [][NextOrderFor]_vars

(***************************************************************************)
(* Contract violation: the caller releases once more the address it has    *)
(* just released.  buddy_free has no test of its argument, so the call     *)
(* runs as any other; the run is followed up to that call.                 *)
(***************************************************************************)
DoubleFree ==
  /\ last.op = "free"
  /\ LET s == buddy_free(cur, last.arg)
     IN  /\ free_area' = s.free_area
         /\ g_pages' = s.g_pages
  /\ last' = [op |-> "double_free", arg |-> last.arg, ret |-> NULL]
  /\ roundtrip' = FALSE
  /\ pre' = NoSnapshot
  /\ UNCHANGED live

NextDoubleFree == (last.op # "double_free" /\ (Alloc \/ Free)) \/ DoubleFree

SpecDoubleFree == Init /\ [][NextDoubleFree]_vars

(***************************************************************************)
(* Vocabulary of the properties                                            *)
(***************************************************************************)
\* the smallest order of the allocator whose block holds size bytes
SmallestOrder(size) ==
  CHOOSE o \in Orders : Shl1(o) >= size /\ \A q \in Orders : Shl1(q) >= size => o <= q

\* the pages of the block of order o whose first page is p
BlockPages(p, o) == p .. (p + Shl1(o - MIN_ORDER) - 1)

\* the first page of the buddy, at order o, of the block whose first page is p
BuddyPage(p, o) ==
  IF (p \div Shl1(o - MIN_ORDER)) % 2 = 0 THEN p + Shl1(o - MIN_ORDER) ELSE p - Shl1(o - MIN_ORDER)

\* the free-list entries whose block covers page pg, as <<order, position in the list>>
FreeCovers(st, pg) ==
  UNION {LET l == list_members(st, HeadPtr(o))
         IN  {<< o, k >> : k \in {j \in 1 .. Len(l) : pg \in BlockPages(list_entry(l[j]), o)}} :
         o \in Orders}

\* the live allocations whose block covers page pg
LiveCovers(pg) == {b \in live : pg \in BlockPages(ADDR_TO_PAGE(b.addr), b.order)}

\* the pages covered by the blocks of a family of free sets
PagesOf(fs) == UNION {UNION {BlockPages(p, o) : p \in fs[o]} : o \in Orders}

\* the free lists as buddy_init leaves them
InitialFree == [o \in Orders |-> IF o = MAX_ORDER THEN {0} ELSE {}]

\* the allocation of the whole arena
WholeArena == [addr |-> PAGE_TO_ADDR(0), order |-> MAX_ORDER]

(***************************************************************************)
(* Properties                                                              *)
(***************************************************************************)
\* C1 (partition invariant): in every state reached from buddy_init by calls of
\* buddy_alloc and buddy_free on live addresses, every page of the arena is
\* covered by exactly one block, a live allocation or a free-list entry.
C1_Partition ==
  LET st == cur
  IN  \A pg \in Pages : Cardinality(FreeCovers(st, pg)) + Cardinality(LiveCovers(pg)) = 1

\* a release has left at least two live allocations and at least two free blocks
C1_Witness ==
  /\ last.op = "free"
  /\ Cardinality(live) >= 2
  /\ Cardinality({pg \in Pages : \E o \in Orders : pg \in FreeSets(cur)[o]}) >= 2

\* C2: a successful buddy_alloc(size) returns the base of a block of exactly
\* 2^order bytes, order being the smallest order that holds size: the pages the
\* call took out of the free lists are exactly the pages of that block, the call
\* freed nothing, the descriptor records that order, and no other live allocation
\* has a page of the block.
C2_AllocBlock ==
  (last.op = "alloc" /\ last.ret # NULL) =>
    LET o == SmallestOrder(last.arg)
        p == ADDR_TO_PAGE(last.ret)
        blk == BlockPages(p, o)
    IN  /\ last.ret = PAGE_TO_ADDR(p)
        /\ blk \subseteq Pages
        /\ g_pages[p].order = o
        /\ [addr |-> last.ret, order |-> o] \in live
        /\ PagesOf(FreeSets(cur)) \subseteq PagesOf(pre)
        /\ PagesOf(pre) \ PagesOf(FreeSets(cur)) = blk
        /\ \A b \in live : b.addr # last.ret => BlockPages(ADDR_TO_PAGE(b.addr), b.order) \cap blk = {}

\* buddy_alloc(5000) has returned a block of order 13 while another allocation is live
C2_Witness ==
  /\ last.op = "alloc"
  /\ last.arg = 5000
  /\ last.ret # NULL
  /\ Cardinality(live) >= 2

\* C3 (alignment): every address buddy_alloc returned at order o is a multiple
\* of 2^o away from the arena base.
C3_Aligned == \A b \in live : b.addr % Shl1(b.order) = 0

\* a block above the page size that does not start the arena has been handed out
C3_Witness ==
  /\ last.op = "alloc"
  /\ last.ret > 0
  /\ \E b \in live : b.addr = last.ret /\ b.order > MIN_ORDER

\* C4 (round trip): a successful buddy_alloc followed at once by buddy_free of
\* the returned address leaves every order's free list with the set of blocks it
\* had before the allocation.
C4_RoundTrip == roundtrip => FreeSets(cur) = pre

\* such a round trip has happened while other allocations were live, on a block
\* that headed a free block above the page size before the allocation
C4_Witness ==
  /\ roundtrip
  /\ live # {}
  /\ \E o \in Orders : o > MIN_ORDER /\ pre[o] # {} /\ ADDR_TO_PAGE(last.arg) \in pre[o]

\* C5 (complete coalescing): in no reachable state do two buddies of an order
\* below MAX_ORDER both sit in that order's free list.
C5_Coalesced ==
  LET fs == FreeSets(cur)
  IN  \A o \in MIN_ORDER .. (MAX_ORDER - 1) : \A p \in fs[o] : BuddyPage(p, o) \notin fs[o]

\* a release has merged a block with its buddy: the freed address is in no free
\* list of its own, its block is part of a larger free block
C5_Witness ==
  /\ last.op = "free"
  /\ live # {}
  /\ \E o \in Orders : \E p \in FreeSets(cur)[o] :
       /\ o > MIN_ORDER
       /\ ADDR_TO_PAGE(last.arg) \in BlockPages(p, o)
       /\ ADDR_TO_PAGE(last.arg) # p

\* C6: once every live allocation has been released, in whatever order, the free
\* lists are those of buddy_init: one block of order MAX_ORDER at the arena start.
C6_AllReleased ==
  live = {} =>
    /\ FreeSets(cur) = InitialFree
    /\ buddy_dump(cur) = [o \in Orders |-> IF o = MAX_ORDER THEN 1 ELSE 0]

\* the last of several allocations has been released, and it was not the first page
C6_Witness ==
  /\ live = {}
  /\ last.op = "free"
  /\ last.arg > 0

\* C7: buddy_alloc(size) returns NULL exactly when size exceeds 2^MAX_ORDER or the
\* free list of every order from the smallest order that holds size up to
\* MAX_ORDER is empty when it is called; otherwise it returns a block.
C7_NullExactly ==
  [][last'.op = "alloc" =>
       ((last'.ret = NULL) <=>
          (\/ last'.arg > Shl1(MAX_ORDER)
           \/ LET fs == FreeSets(cur)
              IN  \A o \in SmallestOrder(last'.arg) .. MAX_ORDER : fs[o] = {}))]_vars

\* a request that fits the arena has failed while a smaller free block existed
C7_Witness ==
  /\ last.op = "alloc"
  /\ last.ret = NULL
  /\ last.arg <= Shl1(MAX_ORDER)
  /\ \E o \in Orders : FreeSets(cur)[o] # {}

\* C8: a buddy_alloc call that fails leaves every free list and every page
\* descriptor as they were.
C8_FailFrame ==
  [][(last'.op = "alloc" /\ last'.ret = NULL) => UNCHANGED << free_area, g_pages >>]_vars

\* a request that fits the arena has failed by exhaustion, with blocks live
C8_Witness ==
  /\ last.op = "alloc"
  /\ last.ret = NULL
  /\ last.arg <= Shl1(MAX_ORDER)
  /\ live # {}

\* C9 (exhaustion boundary): with the free lists as buddy_init leaves them,
\* buddy_alloc(2^MAX_ORDER) succeeds and empties every free list; while that
\* allocation is live every buddy_alloc fails; its release puts the free lists
\* back as buddy_init leaves them, so the request succeeds again.
C9_Exhaustion ==
  [][/\ (FreeSets(cur) = InitialFree /\ last'.op = "alloc" /\ last'.arg = Shl1(MAX_ORDER)) =>
          /\ last'.ret = PAGE_TO_ADDR(0)
          /\ live' = {WholeArena}
          /\ \A o \in Orders : FreeSets(cur')[o] = {}
     /\ (WholeArena \in live /\ last'.op = "alloc") => last'.ret = NULL
     /\ (WholeArena \in live /\ last'.op = "free") =>
          /\ FreeSets(cur') = InitialFree
          /\ buddy_alloc(cur', Shl1(MAX_ORDER)).ret = PAGE_TO_ADDR(0)]_vars

\* a second request for the whole arena has failed while the first is live, in a
\* run that had split the arena down to pages before
C9_Witness ==
  /\ last.op = "alloc"
  /\ last.arg = Shl1(MAX_ORDER)
  /\ last.ret = NULL
  /\ WholeArena \in live
  /\ \E i \in Pages : i > 0 /\ g_pages[i].order = MIN_ORDER

\* the counts buddy_dump prints, orders 12, 13, 14
Dump3(c12, c13, c14) == (12 :> c12) @@ (13 :> c13) @@ (14 :> c14)

\* C10 as the specification states it: with MIN_ORDER = 12 and MAX_ORDER = 14 the
\* dump after buddy_init is 0, 0, 1 and the dump after one allocate(4096) from
\* there is 0, 1, 0.
C10_Original ==
  (MIN_ORDER = 12 /\ MAX_ORDER = 14) =>
    /\ last.op = "init" => buddy_dump(cur) = Dump3(0, 0, 1)
    /\ (last.op = "alloc" /\ last.arg = 4096 /\ pre = InitialFree) =>
         buddy_dump(cur) = Dump3(0, 1, 0)

\* C10, amended: with MIN_ORDER = 12 and MAX_ORDER = 14 the dump after buddy_init
\* is 0, 0, 1, and the dump after one allocate(4096) from there is 1, 1, 0: the
\* split leaves one free block at order 12 and one at order 13.
C10_Example1 ==
  (MIN_ORDER = 12 /\ MAX_ORDER = 14) =>
    /\ last.op = "init" => buddy_dump(cur) = Dump3(0, 0, 1)
    /\ (last.op = "alloc" /\ last.arg = 4096 /\ pre = InitialFree) =>
         buddy_dump(cur) = Dump3(1, 1, 0)

\* allocate(4096) has been called on the free lists of buddy_init
C10_Witness ==
  /\ MIN_ORDER = 12
  /\ MAX_ORDER = 14
  /\ last.op = "alloc"
  /\ last.arg = 4096
  /\ last.ret = PAGE_TO_ADDR(0)
  /\ pre = InitialFree

\* the free lists after the first allocate(4096) of the examples: page 1 at order
\* 12, page 2 at order 13
AfterFirst4096 == (12 :> {1}) @@ (13 :> {2}) @@ (14 :> {})

\* the second allocate(4096) of the examples has just been called: the first one
\* holds page 0 and left the free lists of AfterFirst4096
SecondAlloc4096 ==
  /\ MIN_ORDER = 12
  /\ MAX_ORDER = 14
  /\ last.op = "alloc"
  /\ last.arg = 4096
  /\ pre = AfterFirst4096
  /\ [addr |-> PAGE_TO_ADDR(0), order |-> 12] \in live
  /\ Cardinality(live) = 2

\* C11 as the specification states it: the second allocate(4096) returns the
\* order-12 buddy of the first block and leaves every free list empty.
C11_Original ==
  SecondAlloc4096 =>
    /\ last.ret = PAGE_TO_ADDR(BuddyPage(0, 12))
    /\ buddy_dump(cur) = Dump3(0, 0, 0)

\* C11, amended: the second allocate(4096) returns the order-12 buddy of the
\* first block; afterwards orders 12 and 14 are empty and order 13 still holds
\* one free block, the upper half of the arena.
C11_Example2 ==
  SecondAlloc4096 =>
    /\ last.ret = PAGE_TO_ADDR(BuddyPage(0, 12))
    /\ buddy_dump(cur) = Dump3(0, 1, 0)
    /\ FreeSets(cur)[13] = {2}

\* the second allocate(4096) has returned
C11_Witness == SecondAlloc4096 /\ last.ret # NULL

\* C12: for 0 < size <= 2^MAX_ORDER orderFor(size) is the smallest order of
\* MIN_ORDER .. MAX_ORDER whose block holds size bytes, for a larger size it is
\* -1, and the call leaves the allocator state as it was.
C12_OrderFor ==
  last.op = "orderFor" =>
    /\ last.arg <= Shl1(MAX_ORDER) =>
         /\ last.ret \in Orders
         /\ Shl1(last.ret) >= last.arg
         /\ \A q \in Orders : Shl1(q) >= last.arg => last.ret <= q
    /\ last.arg > Shl1(MAX_ORDER) => last.ret = -1
    /\ cur = buddy_init

\* orderFor has been called with one byte more than a page, which takes the
\* next order
C12_Witness ==
  /\ last.op = "orderFor"
  /\ last.arg = PAGE_SIZE + 1
  /\ last.ret = MIN_ORDER + 1

\* the first page of the block of order o that holds page p
AlignDown(p, o) == p - (p % Shl1(o - MIN_ORDER))

\* the free-list entries of fs that are not in gs, as <<page, order>>
EntriesLeft(fs, gs) == UNION {{<< p, o >> : p \in fs[o] \ gs[o]} : o \in Orders}

\* C13 (no false merge): a buddy_free of a live block of order o0 puts one block
\* into the free lists; it merges at an order only with the buddy that sits, as
\* one block of that order, in that order's free list: the entries it removes
\* are exactly the buddies, at the orders from o0 up to the final order, of the
\* block being built, and the inserted block is made of the freed block and of
\* those entries, so no allocated or differently split page gets into it.
C13_NoFalseMerge ==
  [][last'.op = "free" =>
       LET p0 == ADDR_TO_PAGE(last'.arg)
           o0 == (CHOOSE b \in live : b.addr = last'.arg).order
           fs == FreeSets(cur)
           gs == FreeSets(cur')
           removed == EntriesLeft(fs, gs)
           added == EntriesLeft(gs, fs)
       IN  /\ Cardinality(added) = 1
           /\ \A e \in added :
                /\ e[2] >= o0
                /\ e[1] = AlignDown(p0, e[2])
                /\ removed = {<< BuddyPage(AlignDown(p0, j), j), j >> : j \in o0 .. (e[2] - 1)}
                /\ BlockPages(e[1], e[2]) =
                     BlockPages(p0, o0) \cup UNION {BlockPages(r[1], r[2]) : r \in removed}]_vars

\* a block above the page size has been released next to a buddy region that is
\* partly live and partly free, and has stayed at its own order
C13_Witness ==
  /\ last.op = "free"
  /\ \E o \in (MIN_ORDER + 1) .. (MAX_ORDER - 1) :
       LET p == ADDR_TO_PAGE(last.arg)
           region == BlockPages(BuddyPage(p, o), o)
       IN  /\ p \in FreeSets(cur)[o]
           /\ \E pg \in region : LiveCovers(pg) # {}
           /\ \E pg \in region : FreeCovers(cur, pg) # {}

\* C14: in every reachable state, the state right after buddy_init included,
\* every descriptor linked in the free list of order o has o as its stored order.
C14_FreeOrder ==
  LET fs == FreeSets(cur)
  IN  \A o \in Orders : \A p \in fs[o] : g_pages[p].order = o

\* C15: while an allocation is live the stored order of the descriptor of its
\* first page is the order it was allocated at, whatever other blocks are
\* allocated or released meanwhile, and buddy_free of it adds to the free pages
\* exactly the pages that were handed out.
C15_LiveOrder ==
  [][/\ \A b \in live' : g_pages'[ADDR_TO_PAGE(b.addr)].order = b.order
     /\ last'.op = "free" =>
          LET b == CHOOSE c \in live : c.addr = last'.arg
              before == PagesOf(FreeSets(cur))
              after == PagesOf(FreeSets(cur'))
          IN  /\ g_pages[ADDR_TO_PAGE(b.addr)].order = b.order
              /\ after \ before = BlockPages(ADDR_TO_PAGE(b.addr), b.order)
              /\ before \subseteq after]_vars

\* a neighbour of two live allocations of different orders has been released
C15_Witness ==
  /\ last.op = "free"
  /\ \E b, c \in live : b.order # c.order

\* the order of the free list, as it was before the allocation, that held the
\* block the most recent buddy_alloc returned
TakenOrder == CHOOSE i \in Orders : ADDR_TO_PAGE(last.ret) \in pre[i]

\* C16 (smallest fit): a successful buddy_alloc(size) takes its block from the
\* free list of the smallest order, from the order of size up, that was not
\* empty; the free lists of the orders above it are left as they were.
C16_SmallestFit ==
  (last.op = "alloc" /\ last.ret # NULL) =>
    LET o == SmallestOrder(last.arg)
        p == ADDR_TO_PAGE(last.ret)
        fs == FreeSets(cur)
    IN  /\ \E i \in o .. MAX_ORDER : p \in pre[i]
        /\ \A j \in o .. (TakenOrder - 1) : pre[j] = {}
        /\ fs[TakenOrder] = pre[TakenOrder] \ {p}
        /\ \A j \in (TakenOrder + 1) .. MAX_ORDER : fs[j] = pre[j]

\* a page-sized request has been served from the order-MIN_ORDER list while a
\* larger free block existed, and that block is still there
C16_Witness ==
  /\ last.op = "alloc"
  /\ last.ret # NULL
  /\ SmallestOrder(last.arg) = MIN_ORDER
  /\ pre[MIN_ORDER] # {}
  /\ \E j \in (MIN_ORDER + 1) .. MAX_ORDER : pre[j] # {}

\* C17 (split effect): a buddy_alloc that takes a block of order i for a request
\* of a smaller order o adds exactly one entry to the free list of each order
\* from o to i - 1, the upper half at that order of the taken block, i - o
\* entries in all; it removes the taken block from the list of order i, returns
\* its base address and changes no other free-list entry.
C17_SplitEffect ==
  (last.op = "alloc" /\ last.ret # NULL /\ SmallestOrder(last.arg) < TakenOrder) =>
    LET o == SmallestOrder(last.arg)
        i == TakenOrder
        p == ADDR_TO_PAGE(last.ret)
        fs == FreeSets(cur)
        before == [j \in Orders |-> Cardinality(pre[j])]
    IN  /\ last.ret = PAGE_TO_ADDR(p)
        /\ p \in pre[i]
        /\ \A j \in o .. (i - 1) :
             /\ (p + Shl1(j - MIN_ORDER)) \notin pre[j]
             /\ fs[j] = pre[j] \cup {p + Shl1(j - MIN_ORDER)}
             /\ buddy_dump(cur)[j] = before[j] + 1
        /\ fs[i] = pre[i] \ {p}
        /\ buddy_dump(cur)[i] = before[i] - 1
        /\ \A j \in Orders : (j < o \/ j > i) => (fs[j] = pre[j] /\ buddy_dump(cur)[j] = before[j])
        /\ Cardinality(EntriesLeft(fs, pre)) = i - o

\* a block has been split over two orders or more
C17_Witness ==
  /\ last.op = "alloc"
  /\ last.ret # NULL
  /\ TakenOrder >= SmallestOrder(last.arg) + 2

\* C18: every block in the free list of order o starts at a page index that is
\* a multiple of 2^(o - MIN_ORDER); so the block buddy_free inserts is
\* represented by the lowest page of the merged region.
C18_FreeAligned ==
  LET fs == FreeSets(cur)
  IN  \A o \in Orders : \A p \in fs[o] : p % Shl1(o - MIN_ORDER) = 0

\* the release of the upper one of two buddies has built a block, away from the
\* arena start, that the lower one represents
C18_Witness ==
  /\ last.op = "free"
  /\ \E o \in (MIN_ORDER + 1) .. MAX_ORDER : \E p \in FreeSets(cur)[o] :
       /\ p > 0
       /\ ADDR_TO_PAGE(last.arg) \in BlockPages(p, o)
       /\ ADDR_TO_PAGE(last.arg) # p

\* C19: buddy_free does not validate its argument.  A second release of the
\* address just released runs like a first one: it ends with the page linked at
\* the front of the free list of the order stored in its descriptor.  When the
\* first release had merged the block into a free block that another page
\* represents, the second release puts the block into a free list again, so its
\* first page is covered by two free-list blocks and the partition is broken.
C19_DoubleFree ==
  [][last'.op = "double_free" =>
       LET p == ADDR_TO_PAGE(last'.arg)
       IN  /\ free_area'[g_pages'[p].order].next = PagePtr(p)
           /\ (\E e \in Pages \X Orders :
                 /\ e[1] \in FreeSets(cur)[e[2]]
                 /\ e[1] # p
                 /\ p \in BlockPages(e[1], e[2])) =>
                /\ Cardinality(FreeCovers(cur', p)) = 2
                /\ \E o \in Orders : p \in FreeSets(cur')[o]]_vars

\* a double release has left a page in two free-list blocks, with every list
\* still well formed
C19_Witness ==
  /\ last.op = "double_free"
  /\ g_pages[ADDR_TO_PAGE(last.arg)].list.next # PagePtr(ADDR_TO_PAGE(last.arg))
  /\ Cardinality(FreeCovers(cur, ADDR_TO_PAGE(last.arg))) = 2

\* the pages of the free list of order o, from the head on
PageSeq(st, o) ==
  LET l == list_members(st, HeadPtr(o))
  IN  [k \in 1 .. Len(l) |-> list_entry(l[k])]

====
